---- MODULE Spec2Model ----
(***************************************************************************)
(* The string resolvers of the forge command line:                         *)
(*   Dependency::from_str    cli/src/opts/forge.rs                         *)
(*   ContractInfo::from_str  cli/src/opts/forge.rs                         *)
(*   get_fork                cli/src/utils.rs                              *)
(* A string is a sequence of one-character strings; Option<T> is a         *)
(* sequence of length 0 (None) or 1 (Some).                                *)
(***************************************************************************)
EXTENDS Naturals, Sequences, FiniteSets

VARIABLES call, pc, dependency, dep, dep2, s, info, evm_opts, config, chain_id,
          cache_dir, fork

vars == <<call, pc, dependency, dep, dep2, s, info, evm_opts, config, chain_id,
          cache_dir, fork>>

(* ------------------------------ bounds --------------------------------- *)

\* longest free tail of a dependency input, in characters
MaxTail == 4
\* most pieces of a contract-info input
MaxParts == 5
\* largest pinned block number
MaxBlock == 1
\* largest chain id
MaxChain == 1

(* ------------------------------ Option --------------------------------- *)

None == << >>
Some(x) == <<x>>
IsSome(o) == Len(o) = 1

(* --------------------------- character classes ------------------------- *)

Lower == {"a", "b", "c", "d", "e", "f", "g", "h", "i", "j", "k", "l", "m",
          "n", "o", "p", "q", "r", "s", "t", "u", "v", "w", "x", "y", "z"}
Upper == {"A", "B", "C", "D", "E", "F", "G", "H", "I", "J", "K", "L", "M",
          "N", "O", "P", "Q", "R", "S", "T", "U", "V", "W", "X", "Y", "Z"}
Digit == {"0", "1", "2", "3", "4", "5", "6", "7", "8", "9"}

\* [A-Za-z\d-]
OwnerClass == Lower \cup Upper \cup Digit \cup {"-"}
\* [A-Za-z\d_.-]
RepoClass == Lower \cup Upper \cup Digit \cup {"_", ".", "-"}
\* [A-Za-z0-9-]
LabelClass == Lower \cup Upper \cup Digit \cup {"-"}
\* (/|:)
SepClass == {"/", ":"}

\* the alternatives of the optional scheme group, in the order the pattern lists them
SchemeAlternatives ==
    << <<"g", "i", "t", "@">>,
       <<"g", "i", "t", "+", "h", "t", "t", "p", "s", ":", "/", "/">>,
       <<"h", "t", "t", "p", "s", ":", "/", "/">> >>

GITHUB == <<"g", "i", "t", "h", "u", "b", ".", "c", "o", "m">>
VERSION_SEPARATOR == "@"
HttpsScheme == <<"h", "t", "t", "p", "s", ":", "/", "/">>

(* ----------------------------- str helpers ----------------------------- *)

\* the literal lit occurs in str at index i
LitAt(str, i, lit) ==
    /\ i + Len(lit) - 1 <= Len(str)
    /\ \A k \in 1..Len(lit) : str[i + k - 1] = lit[k]

\* the index just past the longest run of class characters that starts at i
RunEnd(str, i, class) ==
    CHOOSE j \in i..(Len(str) + 1) :
        /\ \A k \in i..(j - 1) : str[k] \in class
        /\ (j = Len(str) + 1 \/ str[j] \notin class)

Contains(str, c) == \E i \in 1..Len(str) : str[i] = c

EndsWith(str, suffix) ==
    /\ Len(suffix) <= Len(str)
    /\ SubSeq(str, Len(str) - Len(suffix) + 1, Len(str)) = suffix

\* str::split(c): the segments between the occurrences of c, never empty
RECURSIVE Split(_, _)
Split(str, c) ==
    IF Contains(str, c)
    THEN LET i == CHOOSE i \in 1..Len(str) :
                      str[i] = c /\ \A j \in 1..(i - 1) : str[j] # c
         IN  <<SubSeq(str, 1, i - 1)>> \o Split(SubSeq(str, i + 1, Len(str)), c)
    ELSE <<str>>

Reverse(q) == [i \in 1..Len(q) |-> q[Len(q) + 1 - i]]

\* str::rsplit(c): the same segments, last first
RSplit(str, c) == Reverse(Split(str, c))

\* Iterator::next on the remaining items
IterNext(q) == IF Len(q) = 0 THEN None ELSE Some(Head(q))
IterRest(q) == IF Len(q) = 0 THEN q ELSE Tail(q)
\* Iterator::last
IterLast(q) == IF Len(q) = 0 THEN None ELSE Some(q[Len(q)])

Whitespace == {" "}

\* str::trim
Trim(str) ==
    IF \A i \in 1..Len(str) : str[i] \in Whitespace
    THEN << >>
    ELSE LET a == CHOOSE i \in 1..Len(str) :
                      str[i] \notin Whitespace
                      /\ \A j \in 1..(i - 1) : str[j] \in Whitespace
             b == CHOOSE i \in 1..Len(str) :
                      str[i] \notin Whitespace
                      /\ \A j \in (i + 1)..Len(str) : str[j] \in Whitespace
         IN  SubSeq(str, a, b)

(* ------------------------------ the regexes ---------------------------- *)

\* GH_REPO_REGEX.is_match: the pattern is not anchored, so it is searched at every
\* index. No owner character is '/', so only the longest owner run can be followed
\* by the '/' the pattern wants.
\* (variant: a pattern that asks for owner characters only, not for "/repo")
GhRepoIsMatch_NoSlash(str) == \E i \in 1..Len(str) : str[i] \in OwnerClass

GhRepoIsMatch(str) ==
    \E i \in 1..Len(str) :
        LET e == RunEnd(str, i, OwnerClass)
        IN  /\ e > i
            /\ e + 1 <= Len(str)
            /\ str[e] = "/"
            /\ str[e + 1] \in RepoClass

\* the rest of GH_REPO_PREFIX_REGEX after the scheme group, tried at index p:
\* label '.' label (/|:). No label character is '.', '/' or ':', so only the
\* longest run of each label can be followed by what the pattern wants.
HostAt(str, p) ==
    LET e == RunEnd(str, p, LabelClass)
        f == RunEnd(str, e + 1, LabelClass)
    IN  IF /\ e > p
           /\ e <= Len(str)
           /\ str[e] = "."
           /\ f > e + 1
           /\ f <= Len(str)
           /\ str[f] \in SepClass
        THEN Some([brand |-> SubSeq(str, p, e - 1),
                   tld   |-> SubSeq(str, e + 1, f - 1),
                   end   |-> f])
        ELSE None

\* GH_REPO_PREFIX_REGEX tried at index i: the scheme alternatives in order, then
\* the empty scheme; the first that lets the rest match wins
PrefixAt(str, i) ==
    LET try(k) == IF k <= Len(SchemeAlternatives)
                  THEN IF LitAt(str, i, SchemeAlternatives[k])
                       THEN HostAt(str, i + Len(SchemeAlternatives[k]))
                       ELSE None
                  ELSE HostAt(str, i)
        hits == {k \in 1..(Len(SchemeAlternatives) + 1) : IsSome(try(k))}
    IN  IF hits = {}
        THEN None
        ELSE LET k == CHOOSE k \in hits : \A m \in hits : k <= m
             IN  Some([start |-> i,
                       end   |-> try(k)[1].end,
                       brand |-> try(k)[1].brand,
                       tld   |-> try(k)[1].tld])

\* GH_REPO_PREFIX_REGEX.captures: the leftmost match
PrefixCaptures(str) ==
    LET starts == {i \in 1..Len(str) : IsSome(PrefixAt(str, i))}
    IN  IF starts = {}
        THEN None
        ELSE PrefixAt(str, CHOOSE i \in starts : \A j \in starts : i <= j)

\* (variant: the match is left in place)
PrefixReplace_Keep(str) == str

\* GH_REPO_PREFIX_REGEX.replace(str, ""): the leftmost match removed, once
PrefixReplace(str) ==
    LET c == PrefixCaptures(str)
    IN  IF IsSome(c)
        THEN SubSeq(str, 1, c[1].start - 1) \o SubSeq(str, c[1].end + 1, Len(str))
        ELSE str

(* ------------------------ Dependency::from_str ------------------------- *)

\* (variant: the captured host is replaced by GITHUB)
FormatUrl_Github(brand, tld, project) == HttpsScheme \o GITHUB \o <<"/">> \o project

\* format!("https://{}.{}/{}", brand, tld, project)
FormatUrl(brand, tld, project) ==
    HttpsScheme \o brand \o <<".">> \o tld \o <<"/">> \o project

\* format!("https://{}/{}", GITHUB, dependency)
FormatGithub(str) == HttpsScheme \o GITHUB \o <<"/">> \o str

\* (variant: the first segment instead of the last)
LastSegment_First(url) == IterNext(Split(url, "/"))

\* url.split('/').last()
LastSegment(url) == IterLast(Split(url, "/"))

Err(msg, arg) == [ok |-> FALSE, err |-> msg, arg |-> arg]

\* the url_with_version block: Some(string), or None where the function bails
UrlOfCaptures(captures, str) ==
    FormatUrl(captures.brand, captures.tld, PrefixReplace(str))

UrlWithVersion(str) ==
    IF IsSome(PrefixCaptures(str))
    THEN Some(UrlOfCaptures(PrefixCaptures(str)[1], str))
    ELSE IF ~GhRepoIsMatch(str)
         THEN None
         ELSE Some(FormatGithub(str))

\* Ok(Dependency { name, url, tag }), name being the Option that last() returned
DependencyOf(name, url, tag, str) ==
    IF ~IsSome(name)
    THEN Err("no dependency name found", str)
    ELSE [ok |-> TRUE, name |-> name[1], url |-> url, tag |-> tag]

\* the statements after the url_with_version block, split being
\* url_with_version.split(VERSION_SEPARATOR)
DependencyOfSplit(split, str) ==
    IF ~IsSome(IterNext(split))
    THEN Err("no dependency path was provided", str)
    ELSE DependencyOf(LastSegment(IterNext(split)[1]),
                      IterNext(split)[1],
                      IterNext(IterRest(split)),
                      str)

DependencyFromStr(str) ==
    IF ~IsSome(UrlWithVersion(str))
    THEN Err("invalid github repository name", str)
    ELSE DependencyOfSplit(Split(UrlWithVersion(str)[1], VERSION_SEPARATOR), str)

(* ------------------------ ContractInfo::from_str ----------------------- *)

DotSol == <<".", "s", "o", "l">>

\* (variant: the '/' test is missing)
NameIsPath_SolOnly(name) == EndsWith(name, DotSol)

\* name.ends_with(".sol") || name.contains('/')
NameIsPath(name) == EndsWith(name, DotSol) \/ Contains(name, "/")

ContractInfoFromStr(str) ==
    LET iter  == RSplit(str, ":")
        first == IterNext(iter)
    IN  IF ~IsSome(first)
        THEN Err("contract source info format", str)
        ELSE LET name == Trim(first[1])
                 path == IterNext(IterRest(iter))
             IN  IF NameIsPath(name)
                 THEN Err("contract source info format", str)
                 ELSE [ok |-> TRUE, path |-> path, name |-> name]

(* ------------------------------- get_fork ------------------------------ *)

\* Config::foundry_block_cache_file(chain_id, block): an Option, the file
\* <cache dir>/<chain id>/<block>/storage.json when there is a cache directory
FoundryBlockCacheFile(dir, chain, block) ==
    IF IsSome(dir)
    THEN Some(dir[1] \o <<chain, block, "storage.json">>)
    ELSE None

\* (variant: no_storage_caching is not consulted)
get_block_storage_path_NoOptOut(opts, cfg, chain, dir) ==
    IF ~IsSome(opts.fork_url)
    THEN None
    ELSE IF ~IsSome(opts.fork_block_number)
         THEN None
         ELSE IF cfg.endpoint[opts.fork_url[1]] /\ cfg.chain[chain]
              THEN FoundryBlockCacheFile(dir, chain, opts.fork_block_number[1])
              ELSE None

\* (variant: one of the two policy answers is enough)
get_block_storage_path_Either(opts, cfg, chain, dir) ==
    IF opts.no_storage_caching
    THEN None
    ELSE IF ~IsSome(opts.fork_url)
         THEN None
         ELSE IF ~IsSome(opts.fork_block_number)
              THEN None
              ELSE IF cfg.endpoint[opts.fork_url[1]] \/ cfg.chain[chain]
                   THEN FoundryBlockCacheFile(dir, chain, opts.fork_block_number[1])
                   ELSE None

\* get_block_storage_path; dir is Config::foundry_cache_dir(), which the path
\* helper reads from the environment
get_block_storage_path(opts, cfg, chain, dir) ==
    IF opts.no_storage_caching
    THEN None
    ELSE IF ~IsSome(opts.fork_url)
         THEN None
         ELSE IF ~IsSome(opts.fork_block_number)
              THEN None
              ELSE IF cfg.endpoint[opts.fork_url[1]] /\ cfg.chain[chain]
                   THEN FoundryBlockCacheFile(dir, chain, opts.fork_block_number[1])
                   ELSE None

get_fork(opts, cfg, chain, dir) ==
    IF IsSome(opts.fork_url)
    THEN Some([url        |-> opts.fork_url[1],
               pin_block  |-> opts.fork_block_number,
               cache_path |-> get_block_storage_path(opts, cfg, chain, dir),
               chain_id   |-> chain])
    ELSE None

(* ------------------------------- inputs -------------------------------- *)

SeqsUpTo(S, n) == UNION {[1..k -> S] : k \in 0..n}

RECURSIVE Concat(_)
Concat(q) == IF Len(q) = 0 THEN << >> ELSE Head(q) \o Concat(Tail(q))

DepSchemes == {<< >>} \cup {SchemeAlternatives[k] : k \in 1..Len(SchemeAlternatives)}
DepStems == {<< >>, <<"h", ".", "t">>, <<"o", "/", "r">>}
DepAlphabet == {"a", "_", ".", "/", ":", "@"}
DepInputs ==
    {sch \o stem \o tail :
        sch \in DepSchemes, stem \in DepStems, tail \in SeqsUpTo(DepAlphabet, MaxTail)}

ContractParts == {<<"B">>, DotSol, <<"/">>, <<":">>, <<" ">>}
ContractInputs == {Concat(q) : q \in SeqsUpTo(ContractParts, MaxParts)}

Urls == {"http://localhost:8545", "https://mainnet.example"}
Blocks == 0..MaxBlock
Chains == 0..MaxChain
EvmOpts ==
    [fork_url : {None} \cup {Some(u) : u \in Urls},
     fork_block_number : {None} \cup {Some(b) : b \in Blocks},
     no_storage_caching : BOOLEAN]
Configs == [endpoint : [Urls -> BOOLEAN], chain : [Chains -> BOOLEAN]]
CacheDirs == {None, Some(<<"~", ".foundry", "cache">>)}

(* ---------------------------- state machine ---------------------------- *)

NoResult == [ok |-> FALSE, err |-> "not called", arg |-> << >>]
NoOpts == [fork_url |-> None, fork_block_number |-> None, no_storage_caching |-> FALSE]
NoConfig == [endpoint |-> [u \in Urls |-> FALSE], chain |-> [c \in Chains |-> FALSE]]

Init ==
    /\ pc = "call"
    /\ dep = NoResult
    /\ dep2 = NoResult
    /\ info = NoResult
    /\ fork = None
    /\ \/ /\ call = "Dependency"
          /\ dependency \in DepInputs
          /\ s = << >>
          /\ evm_opts = NoOpts /\ config = NoConfig /\ chain_id = 0 /\ cache_dir = None
       \/ /\ call = "ContractInfo"
          /\ s \in ContractInputs
          /\ dependency = << >>
          /\ evm_opts = NoOpts /\ config = NoConfig /\ chain_id = 0 /\ cache_dir = None
       \/ /\ call = "get_fork"
          /\ evm_opts \in EvmOpts
          /\ config \in Configs
          /\ chain_id \in Chains
          /\ cache_dir \in CacheDirs
          /\ dependency = << >>
          /\ s = << >>

\* Dependency::from_str(dependency)
ParseDependency ==
    /\ call = "Dependency" /\ pc = "call"
    /\ dep' = DependencyFromStr(dependency)
    /\ pc' = "done"
    /\ UNCHANGED <<call, dependency, dep2, s, info, evm_opts, config, chain_id,
                   cache_dir, fork>>

\* Dependency::from_str(dep.url), the url of a dependency resolved before
ReparseUrl ==
    /\ call = "Dependency" /\ pc = "done" /\ dep.ok
    /\ dep2' = DependencyFromStr(dep.url)
    /\ pc' = "reparsed"
    /\ UNCHANGED <<call, dependency, dep, s, info, evm_opts, config, chain_id,
                   cache_dir, fork>>

\* ContractInfo::from_str(s)
ParseContractInfo ==
    /\ call = "ContractInfo" /\ pc = "call"
    /\ info' = ContractInfoFromStr(s)
    /\ pc' = "done"
    /\ UNCHANGED <<call, dependency, dep, dep2, s, evm_opts, config, chain_id,
                   cache_dir, fork>>

\* get_fork(&evm_opts, &config)
GetFork ==
    /\ call = "get_fork" /\ pc = "call"
    /\ fork' = get_fork(evm_opts, config, chain_id, cache_dir)
    /\ pc' = "done"
    /\ UNCHANGED <<call, dependency, dep, dep2, s, info, evm_opts, config, chain_id,
                   cache_dir>>

Next == ParseDependency \/ ReparseUrl \/ ParseContractInfo \/ GetFork

Spec == Init /\ [][Next]_vars

(* ----------------------- vocabulary of the claims ----------------------- *)

DepDone == call = "Dependency" /\ pc \in {"done", "reparsed"}
DepReparsed == call = "Dependency" /\ pc = "reparsed"
ContractDone == call = "ContractInfo" /\ pc = "done"
ForkDone == call = "get_fork" /\ pc = "done"

AllIn(str, class) == Len(str) > 0 /\ \A i \in 1..Len(str) : str[i] \in class

\* owner/repo: one '/', an owner of letters, digits, hyphen before it and a repo
\* of letters, digits, underscore, dot, hyphen after it
IsShorthand(str) ==
    \E i \in 1..Len(str) :
        /\ str[i] = "/"
        /\ AllIn(SubSeq(str, 1, i - 1), Lower \cup Upper \cup Digit \cup {"-"})
        /\ AllIn(SubSeq(str, i + 1, Len(str)), Lower \cup Upper \cup Digit \cup {"_", ".", "-"})

RepoOf(str) == LET i == CHOOSE i \in 1..Len(str) : str[i] = "/"
               IN  SubSeq(str, i + 1, Len(str))

GithubUrlOf(str) ==
    <<"h", "t", "t", "p", "s", ":", "/", "/",
      "g", "i", "t", "h", "u", "b", ".", "c", "o", "m", "/">> \o str

FirstIndex(str, c) ==
    CHOOSE i \in 1..Len(str) : str[i] = c /\ \A j \in 1..(i - 1) : str[j] # c
LastIndex(str, c) ==
    CHOOSE i \in 1..Len(str) : str[i] = c /\ \A j \in (i + 1)..Len(str) : str[j] # c

\* owner/repo@X with X not empty
HasRef(str) ==
    /\ Contains(str, "@")
    /\ IsShorthand(SubSeq(str, 1, FirstIndex(str, "@") - 1))
    /\ FirstIndex(str, "@") < Len(str)
RefHead(str) == SubSeq(str, 1, FirstIndex(str, "@") - 1)
RefOf(str) == SubSeq(str, FirstIndex(str, "@") + 1, Len(str))

\* the explicit forms of a remote: scheme, then host.tld, then the separator
HostForms ==
    {[scheme |-> <<"g", "i", "t", "@">>, sep |-> ":"],
     [scheme |-> <<"h", "t", "t", "p", "s", ":", "/", "/">>, sep |-> "/"],
     [scheme |-> <<"g", "i", "t", "+", "h", "t", "t", "p", "s", ":", "/", "/">>, sep |-> "/"],
     [scheme |-> << >>, sep |-> "/"]}

\* the ways str reads as <scheme>host.tld<sep>owner/repo: the form, the index d of
\* the dot (the first one: no scheme and no label holds a dot) and the index e of
\* the separator
HostReadings(str) ==
    IF ~Contains(str, ".")
    THEN {}
    ELSE {m \in [form : HostForms, d : {FirstIndex(str, ".")},
                 e : {i \in 1..Len(str) : str[i] \in {"/", ":"}}] :
            /\ LitAt(str, 1, m.form.scheme)
            /\ AllIn(SubSeq(str, Len(m.form.scheme) + 1, m.d - 1),
                     Lower \cup Upper \cup Digit \cup {"-"})
            /\ m.e > m.d
            /\ AllIn(SubSeq(str, m.d + 1, m.e - 1), Lower \cup Upper \cup Digit \cup {"-"})
            /\ str[m.e] = m.form.sep
            /\ IsShorthand(SubSeq(str, m.e + 1, Len(str)))}

\* the conditions get_fork's documentation lists for storage caching
CachingConditions ==
    /\ IsSome(evm_opts.fork_url)
    /\ IsSome(evm_opts.fork_block_number)
    /\ ~evm_opts.no_storage_caching
    /\ config.endpoint[evm_opts.fork_url[1]]
    /\ config.chain[chain_id]

\* get_fork returned a Fork whose cache_path is Some(non-empty path)
CacheEnabled ==
    /\ IsSome(fork)
    /\ IsSome(fork[1].cache_path)
    /\ fork[1].cache_path[1] # << >>

NoCachePath == IF IsSome(fork) THEN fork[1].cache_path = None ELSE TRUE

(* -------------------------------- claims ------------------------------- *)

C2_DisabledWithoutPrerequisites ==
    (/\ ForkDone
     /\ \/ ~IsSome(evm_opts.fork_url)
        \/ evm_opts.no_storage_caching
        \/ ~IsSome(evm_opts.fork_block_number))
    => NoCachePath

\* the opt-out alone decides: everything else would enable the cache
C2_Witness ==
    /\ ForkDone
    /\ evm_opts.no_storage_caching
    /\ IsSome(evm_opts.fork_url)
    /\ IsSome(evm_opts.fork_block_number)
    /\ config.endpoint[evm_opts.fork_url[1]]
    /\ config.chain[chain_id]
    /\ IsSome(cache_dir)
    /\ IsSome(fork)
    /\ fork[1].cache_path = None

\* C3 as stated: for every owner/repo and every non-empty X, from_str of
\* owner/repo@X succeeds with url https://github.com/owner/repo, name repo and
\* tag Some(X), the whole of X, also when X holds '/', '.', ':' or another '@'.
C3_WholeRefReturned ==
    (DepDone /\ HasRef(dependency)) =>
        /\ dep.ok
        /\ dep.url = GithubUrlOf(RefHead(dependency))
        /\ dep.name = RepoOf(RefHead(dependency))
        /\ dep.tag = Some(RefOf(dependency))

\* C4: for every owner/repo with no '@', from_str succeeds with url
\* https://github.com/owner/repo, tag None and name repo.
C4_ShorthandResolves ==
    (DepDone /\ IsShorthand(dependency)) =>
        /\ dep.ok
        /\ dep.url = GithubUrlOf(dependency)
        /\ dep.tag = None
        /\ dep.name = RepoOf(dependency)

C4_Witness ==
    /\ DepDone /\ IsShorthand(dependency) /\ dep.ok
    /\ Contains(dependency, "_") /\ Contains(dependency, ".")

C6_NameNeverEmpty == (DepDone /\ dep.ok) => dep.name # << >>

\* C7: for every input on which from_str succeeds with d, from_str(d.url)
\* succeeds too and returns url = d.url, name = d.name and tag = None.
C7_CanonicalUrlIdempotent ==
    DepReparsed =>
        /\ dep2.ok
        /\ dep2.url = dep.url
        /\ dep2.name = dep.name
        /\ dep2.tag = None

\* the url of a shorthand with a ref, which differs from the input, has been
\* resolved again
C7_Witness ==
    /\ DepReparsed /\ dep2.ok
    /\ IsSome(dep.tag)
    /\ dep.url # dependency
    /\ dep.url = GithubUrlOf(<<"o", "/", "r">>)

\* C8 as stated: ContractInfo::from_str splits on the last ':': the name is the
\* trimmed text after it, the path everything before it, earlier ':' included,
\* and the path is None when there is no ':'.
C8_SplitsOnLastColon ==
    (ContractDone /\ info.ok) =>
        IF Contains(s, ":")
        THEN /\ info.name = Trim(SubSeq(s, LastIndex(s, ":") + 1, Len(s)))
             /\ info.path = Some(SubSeq(s, 1, LastIndex(s, ":") - 1))
        ELSE /\ info.name = Trim(s)
             /\ info.path = None

\* C9: ContractInfo::from_str fails on every input whose text after the last ':'
\* (the whole input when there is none) ends in ".sol" or holds '/', and no
\* successful parse returns such a name.
C9_RejectsPathAsName ==
    ContractDone =>
        LET putative == IF Contains(s, ":")
                        THEN SubSeq(s, LastIndex(s, ":") + 1, Len(s))
                        ELSE s
        IN  /\ (EndsWith(putative, <<".", "s", "o", "l">>) \/ Contains(putative, "/"))
                   => ~info.ok
            /\ info.ok => /\ ~EndsWith(info.name, <<".", "s", "o", "l">>)
                          /\ ~Contains(info.name, "/")

\* a path with no contract name has been rejected
C9_Witness ==
    /\ ContractDone /\ ~info.ok
    /\ ~Contains(s, ":")
    /\ Contains(s, "/")

\* C10: every input the prefix pattern does not match and that holds no '/'
\* fails: from_str returns an error.
C10_ShorthandWithoutSlashFails ==
    (/\ DepDone
     /\ ~IsSome(PrefixCaptures(dependency))
     /\ ~Contains(dependency, "/"))
    => ~dep.ok

C10_Witness ==
    /\ DepDone
    /\ ~IsSome(PrefixCaptures(dependency))
    /\ ~Contains(dependency, "/")
    /\ AllIn(dependency, Lower)
    /\ ~dep.ok
    /\ dep.err = "invalid github repository name"

\* owner/repo, optionally followed by an @ref suffix
HasShorthandShape(str) ==
    \/ IsShorthand(str)
    \/ Contains(str, "@") /\ IsShorthand(RefHead(str))

\* C11 as stated: when the prefix pattern does not match, from_str accepts the
\* input only if it has the shape owner/repo, optionally followed by @ref; every
\* other such input fails with the invalid-repository error carrying the
\* original string, and an accepted input resolves under https://github.com/.
C11_OnlyShorthandShapeAccepted ==
    (DepDone /\ ~IsSome(PrefixCaptures(dependency))) =>
        IF HasShorthandShape(dependency)
        THEN dep.ok => LitAt(dep.url, 1, GithubUrlOf(<< >>))
        ELSE /\ ~dep.ok
             /\ dep.err = "invalid github repository name"
             /\ dep.arg = dependency

====
